---------------------------- MODULE Spec2Model ----------------------------
(***************************************************************************)
(* AssetGen: POST /api/generate.  The route runs three middlewares in      *)
(* order (rate limiter, request validator, controller); the controller     *)
(* calls AssetService.generateAsset, which resolves credentials, derives a *)
(* file name, obtains image bytes (OpenAI call + download, or a fixed      *)
(* placeholder) and writes them to disk.                                   *)
(*                                                                         *)
(* JavaScript values are modelled as records [t, v]: t is the type tag and *)
(* v the value's text, so that truthiness, typeof, === and template        *)
(* literals behave as in the source.  Strings are TLA+ strings; TLC        *)
(* evaluates Len, \o and SubSeq on them, which gives character access.     *)
(***************************************************************************)
EXTENDS Integers, Sequences, FiniteSets, TLC

(***************************************************************************)
(* JavaScript values                                                       *)
(***************************************************************************)
Undef == [t |-> "undefined", v |-> ""]

Null == [t |-> "null", v |-> ""]

S(x) == [t |-> "string", v |-> x]

N(x) == [t |-> "number", v |-> x]

B(x) == [t |-> "boolean", v |-> x]

True == B("true")

False == B("false")

\* ToBoolean: undefined, null, "", 0 and false are falsy.
Truthy(x) ==
  CASE x.t = "undefined" -> FALSE
    [] x.t = "null" -> FALSE
    [] x.t = "string" -> x.v # ""
    [] x.t = "number" -> x.v # "0"
    [] x.t = "boolean" -> x.v = "true"

\* a || b
Or(a, b) == IF Truthy(a) THEN a ELSE b

\* `${x}`
ToStr(x) ==
  CASE x.t = "undefined" -> "undefined"
    [] x.t = "null" -> "null"
    [] OTHER -> x.v

\* A destructuring default (param = dflt) applies to undefined only.
Default(x, dflt) == IF x = Undef THEN dflt ELSE x

(***************************************************************************)
(* Strings                                                                 *)
(***************************************************************************)
CharAt(s, i) == SubSeq(s, i, i)

\* String.prototype.includes
Includes(s, sub) ==
  \E i \in 1..(Len(s) - Len(sub) + 1) : SubSeq(s, i, i + Len(sub) - 1) = sub

\* String.prototype.substring(0, n)
Substring0(s, n) == IF Len(s) <= n THEN s ELSE SubSeq(s, 1, n)

UpperAlphabet == "ABCDEFGHIJKLMNOPQRSTUVWXYZ"

LowerAlphabet == "abcdefghijklmnopqrstuvwxyz"

Digits == "0123456789"

InStr(c, alphabet) == \E i \in 1..Len(alphabet) : CharAt(alphabet, i) = c

LowerChar(c) ==
  IF InStr(c, UpperAlphabet)
  THEN CharAt(LowerAlphabet, CHOOSE i \in 1..26 : CharAt(UpperAlphabet, i) = c)
  ELSE c

RECURSIVE toLowerCase(_)
toLowerCase(s) ==
  IF s = "" THEN "" ELSE LowerChar(Head(s)) \o toLowerCase(Tail(s))

\* The character class [a-z0-9].
IsSlugChar(c) == InStr(c, LowerAlphabet) \/ InStr(c, Digits)

\* .replace(/[^a-z0-9]+/g, '_'): every maximal run outside the class
\* becomes one underscore.  inRun says the previous character was in a run.
RECURSIVE ReplaceRunsFrom(_, _)
ReplaceRunsFrom(s, inRun) ==
  IF s = "" THEN ""
  ELSE IF IsSlugChar(Head(s)) THEN Head(s) \o ReplaceRunsFrom(Tail(s), FALSE)
  ELSE IF inRun THEN ReplaceRunsFrom(Tail(s), TRUE)
  ELSE "_" \o ReplaceRunsFrom(Tail(s), TRUE)

ReplaceRuns(s) == ReplaceRunsFrom(s, FALSE)

\* .replace(/^_|_$/g, ''): one underscore at the start and one at the end.
StripEnds(s) ==
  LET a == IF Len(s) > 0 /\ Head(s) = "_" THEN Tail(s) ELSE s
  IN IF Len(a) > 0 /\ CharAt(a, Len(a)) = "_" THEN SubSeq(a, 1, Len(a) - 1) ELSE a

SlugMax == 50

Slugify_NoStrip(query) == Substring0(ReplaceRuns(toLowerCase(query)), SlugMax)

Slugify_TruncateFirst(query) ==
  StripEnds(Substring0(ReplaceRuns(toLowerCase(query)), SlugMax))

\* The slug of generateFilename.
Slugify(query) ==
  Substring0(StripEnds(ReplaceRuns(toLowerCase(query))), SlugMax)


(***************************************************************************)
(* config: rate-limit settings read from the environment                   *)
(***************************************************************************)
\* RATE_LIMIT_MAX_REQUESTS as parseInt reads it; 0 stands for both "0" and
\* NaN (unset), which || treats alike.
EnvRateLimitMax == 1

DefaultRateLimitMax == 10

\* config.rateLimit.windowMs, with RATE_LIMIT_WINDOW_MS unset
RateLimitWindowMs == 60000

\* config.rateLimit.max
RateLimitMax == IF EnvRateLimitMax # 0 THEN EnvRateLimitMax ELSE DefaultRateLimitMax

\* config.assetStorage.path
AssetStoragePath == "./generated-assets"

(***************************************************************************)
(* ConfigService                                                           *)
(***************************************************************************)
\* The fallback of loadConfig when the file is absent or unreadable.
FallbackConfig ==
  [isNull |-> FALSE, provider |-> S("openai"), apiKey |-> Null]

\* What loadConfig can leave in this.config: the fallback, a file written by
\* the CLI (one of the three providers with a key), a file without a provider
\* entry, a file holding a provider the server does not know, and a file
\* holding JSON null.
ConfigFiles ==
  { FallbackConfig,
    [isNull |-> FALSE, provider |-> S("openai"), apiKey |-> S("sk-cfg")],
    [isNull |-> FALSE, provider |-> S("stability"), apiKey |-> S("sk-cfg")],
    [isNull |-> FALSE, provider |-> Undef, apiKey |-> S("sk-cfg")],
    [isNull |-> FALSE, provider |-> S("dalle"), apiKey |-> S("sk-cfg")],
    [isNull |-> TRUE, provider |-> Undef, apiKey |-> Undef] }

getDefaultApiKey_AnyProvider(cfg, provider) ==
  IF cfg.isNull THEN Null ELSE cfg.apiKey

getDefaultApiKey(cfg, provider) ==
  IF cfg.isNull THEN Null
  ELSE IF provider = cfg.provider THEN cfg.apiKey
  ELSE Null

getDefaultProvider(cfg) ==
  Or(IF cfg.isNull THEN Undef ELSE cfg.provider, S("openai"))

(***************************************************************************)
(* validateGenerateRequest                                                 *)
(***************************************************************************)
MsgMissingQuery == "Missing required field: query"

MsgMissingType == "Missing required field: type"

MsgUnsupportedType ==
  "Unsupported asset type. Currently only \"image\" is supported."

MsgUnsupportedFormat ==
  "Unsupported format. Supported formats are: sprite, icon, component"

MsgMissingApiKey ==
  "Missing required field: api_key. You must provide your own API key or configure one using the CLI."

MsgUnsupportedProvider ==
  "Unsupported provider. Supported providers are: openai, stability, replicate"

MsgInvalidTransparent ==
  "Invalid value for transparent. Must be a boolean (true or false)."

SupportedFormats == {S("sprite"), S("icon"), S("component")}

SupportedProviders == {S("openai"), S("stability"), S("replicate")}

\* res.status(code).json({status: 'error', message}): no details member.
Reject(code, message) ==
  [next |-> FALSE, code |-> code,
   json |-> [status |-> S("error"), message |-> S(message), details |-> Undef]]

PassOn == [next |-> TRUE, code |-> 0, json |-> [status |-> Undef]]

validateGenerateRequest_ProviderFirst(body, cfg) ==
  LET effectiveProvider == Or(body.provider, getDefaultProvider(cfg))
      defaultApiKey == getDefaultApiKey(cfg, effectiveProvider)
  IN IF ~Truthy(body.query) THEN Reject(400, MsgMissingQuery)
     ELSE IF ~Truthy(body.type) THEN Reject(400, MsgMissingType)
     ELSE IF body.type # S("image") THEN Reject(400, MsgUnsupportedType)
     ELSE IF Truthy(body.format) /\ body.format \notin SupportedFormats
       THEN Reject(400, MsgUnsupportedFormat)
     ELSE IF Truthy(body.provider) /\ body.provider \notin SupportedProviders
       THEN Reject(400, MsgUnsupportedProvider)
     ELSE IF ~Truthy(body.api_key) /\ ~Truthy(defaultApiKey)
       THEN Reject(400, MsgMissingApiKey)
     ELSE IF body.transparent # Undef /\ body.transparent.t # "boolean"
       THEN Reject(400, MsgInvalidTransparent)
     ELSE PassOn

validateGenerateRequest_NoKeyCheck(body, cfg) ==
  IF ~Truthy(body.query) THEN Reject(400, MsgMissingQuery)
  ELSE IF ~Truthy(body.type) THEN Reject(400, MsgMissingType)
  ELSE IF body.type # S("image") THEN Reject(400, MsgUnsupportedType)
  ELSE IF Truthy(body.format) /\ body.format \notin SupportedFormats
    THEN Reject(400, MsgUnsupportedFormat)
  ELSE IF Truthy(body.provider) /\ body.provider \notin SupportedProviders
    THEN Reject(400, MsgUnsupportedProvider)
  ELSE IF body.transparent # Undef /\ body.transparent.t # "boolean"
    THEN Reject(400, MsgInvalidTransparent)
  ELSE PassOn

validateGenerateRequest(body, cfg) ==
  LET effectiveProvider == Or(body.provider, getDefaultProvider(cfg))
      defaultApiKey == getDefaultApiKey(cfg, effectiveProvider)
  IN IF ~Truthy(body.query) THEN Reject(400, MsgMissingQuery)
     ELSE IF ~Truthy(body.type) THEN Reject(400, MsgMissingType)
     ELSE IF body.type # S("image") THEN Reject(400, MsgUnsupportedType)
     ELSE IF Truthy(body.format) /\ body.format \notin SupportedFormats
       THEN Reject(400, MsgUnsupportedFormat)
     ELSE IF ~Truthy(body.api_key) /\ ~Truthy(defaultApiKey)
       THEN Reject(400, MsgMissingApiKey)
     ELSE IF Truthy(body.provider) /\ body.provider \notin SupportedProviders
       THEN Reject(400, MsgUnsupportedProvider)
     ELSE IF body.transparent # Undef /\ body.transparent.t # "boolean"
       THEN Reject(400, MsgInvalidTransparent)
     ELSE PassOn

(***************************************************************************)
(* AssetService: pure parts                                                *)
(***************************************************************************)
\* uuidv4(): a fresh identifier.  The n-th call of a run returns an
\* identifier ending in n, so two calls never return the same one; its first
\* eight characters are random.
UuidV4(prefix, n) == prefix \o "-0000-4000-8000-00000000000" \o CharAt(Digits, n + 1)

TypeErrorToLowerCase == "query.toLowerCase is not a function"

generateFilename_NoSuffix(query, format, uuid) ==
  IF query.t # "string" THEN [ok |-> FALSE, error |-> TypeErrorToLowerCase, name |-> ""]
  ELSE [ok |-> TRUE, error |-> "",
        name |-> Slugify(query.v) \o "_" \o ToStr(Or(format, S("image"))) \o ".png"]

generateFilename_FormatAsIs(query, format, uuid) ==
  IF query.t # "string" THEN [ok |-> FALSE, error |-> TypeErrorToLowerCase, name |-> ""]
  ELSE [ok |-> TRUE, error |-> "",
        name |-> Slugify(query.v) \o "_" \o ToStr(Default(format, S("image")))
                 \o "_" \o Substring0(uuid, 8) \o ".png"]

\* generateFilename(query, format), with the identifier uuidv4() returned.
\* A query that is not a string has no toLowerCase method: TypeError.
generateFilename(query, format, uuid) ==
  IF query.t # "string" THEN [ok |-> FALSE, error |-> TypeErrorToLowerCase, name |-> ""]
  ELSE [ok |-> TRUE, error |-> "",
        name |-> Slugify(query.v) \o "_" \o ToStr(Or(format, S("image")))
                 \o "_" \o Substring0(uuid, 8) \o ".png"]

\* path.join(config.assetStorage.path, filename): join normalises "./a" to "a".
PathJoin(dir, name) ==
  (IF Len(dir) >= 2 /\ SubSeq(dir, 1, 2) = "./" THEN SubSeq(dir, 3, Len(dir)) ELSE dir)
    \o "/" \o name

\* The two placeholder payloads, named by their base64 text.
TransparentPng ==
  "iVBORw0KGgoAAAANSUhEUgAAAAEAAAABCAQAAAC1HAwCAAAAC0lEQVR42mNkYAAAAAYAAjCB0C8AAAAASUVORK5CYII="

OpaquePng ==
  "iVBORw0KGgoAAAANSUhEUgAAAAEAAAABCAIAAACQd1PeAAAADElEQVQI12P4//8/AAX+Av7czFnnAAAAAElFTkSuQmCC"

getPlaceholderImageData_AlwaysTransparent(transparent) == TransparentPng

getPlaceholderImageData(transparent) ==
  IF Truthy(transparent) THEN TransparentPng ELSE OpaquePng

\* `${status}` for the upstream statuses of the model.
StatusText(n) ==
  CASE n = 400 -> "400" [] n = 401 -> "401" [] n = 429 -> "429"
    [] n = 500 -> "500" [] OTHER -> "503"

\* The prompt callOpenAIImageAPI sends.
AdjustedPrompt(prompt, transparent) ==
  IF Truthy(transparent) THEN ToStr(prompt) \o " with transparent background"
  ELSE ToStr(prompt)

\* The Error callOpenAIImageAPI throws for a failed axios.post.  o.kind is
\* "http" when the provider answered (o.status, and o.detail for
\* data.error?.message) and "network" when it did not (o.detail is
\* error.message).
OpenAIErrorMessage_Lowercase(o) ==
  IF o.kind = "http" THEN
    IF o.status = 401 THEN "API key is invalid or expired."
    ELSE IF o.status = 429 THEN "rate limit exceeded. Please try again later."
    ELSE IF o.status = 400 THEN "Bad request: " \o ToStr(Or(o.detail, S("Unknown error")))
    ELSE "OpenAI API error (" \o StatusText(o.status) \o "): "
           \o ToStr(Or(o.detail, S("Unknown error")))
  ELSE "Failed to call OpenAI API: " \o ToStr(o.detail)

OpenAIErrorMessage_No401(o) ==
  IF o.kind = "http" THEN
    IF o.status = 429 THEN "Rate limit exceeded. Please try again later."
    ELSE IF o.status = 400 THEN "Bad request: " \o ToStr(Or(o.detail, S("Unknown error")))
    ELSE "OpenAI API error (" \o StatusText(o.status) \o "): "
           \o ToStr(Or(o.detail, S("Unknown error")))
  ELSE "Failed to call OpenAI API: " \o ToStr(o.detail)

OpenAIErrorMessage(o) ==
  IF o.kind = "http" THEN
    IF o.status = 401 THEN "API key is invalid or expired."
    ELSE IF o.status = 429 THEN "Rate limit exceeded. Please try again later."
    ELSE IF o.status = 400 THEN "Bad request: " \o ToStr(Or(o.detail, S("Unknown error")))
    ELSE "OpenAI API error (" \o StatusText(o.status) \o "): "
           \o ToStr(Or(o.detail, S("Unknown error")))
  ELSE "Failed to call OpenAI API: " \o ToStr(o.detail)

MsgNoImageData == "No image data returned from OpenAI API"

MsgNoApiKey(provider) ==
  "No API key provided for " \o ToStr(provider)
    \o ". Please provide an API key or configure one using the CLI."

(***************************************************************************)
(* AssetController.generateAsset: the response for a thrown Error          *)
(***************************************************************************)
ErrorJson(message, details) ==
  [status |-> S("error"), message |-> S(message), details |-> S(details)]

ErrorResponse_AnyCase(errorMessage) ==
  IF Includes(toLowerCase(errorMessage), "api key")
    THEN [code |-> 401, json |-> ErrorJson("Invalid or missing API key.", errorMessage)]
  ELSE IF Includes(toLowerCase(errorMessage), "provider")
    THEN [code |-> 400, json |-> ErrorJson("Invalid provider specified.", errorMessage)]
  ELSE IF Includes(toLowerCase(errorMessage), "rate limit")
    THEN [code |-> 429,
          json |-> ErrorJson("Rate limit exceeded. Please try again later.", errorMessage)]
  ELSE [code |-> 500,
        json |-> ErrorJson("An error occurred while generating the asset.", errorMessage)]

ErrorResponse(errorMessage) ==
  IF Includes(errorMessage, "API key")
    THEN [code |-> 401, json |-> ErrorJson("Invalid or missing API key.", errorMessage)]
  ELSE IF Includes(errorMessage, "provider")
    THEN [code |-> 400, json |-> ErrorJson("Invalid provider specified.", errorMessage)]
  ELSE IF Includes(errorMessage, "rate limit")
    THEN [code |-> 429,
          json |-> ErrorJson("Rate limit exceeded. Please try again later.", errorMessage)]
  ELSE [code |-> 500,
        json |-> ErrorJson("An error occurred while generating the asset.", errorMessage)]

SuccessResponse_StyleAsIs(filePath, filename, style, transparent, query) ==
  [code |-> 200,
   json |-> [status |-> S("success"), file_path |-> S(filePath), file_name |-> S(filename),
             meta |-> [format |-> S("png"), style |-> Default(style, S("default")),
                       dimensions |-> S("256x256"), transparent |-> transparent,
                       query |-> query]]]

\* The object generateImage returns, sent with status 200.
SuccessResponse(filePath, filename, style, transparent, query) ==
  [code |-> 200,
   json |-> [status |-> S("success"), file_path |-> S(filePath), file_name |-> S(filename),
             meta |-> [format |-> S("png"), style |-> Or(style, S("default")),
                       dimensions |-> S("256x256"), transparent |-> transparent,
                       query |-> query]]]

(***************************************************************************)
(* Bounds and inputs                                                       *)
(***************************************************************************)
\* Requests of one run, and how many may be in flight at once.
MaxRequests == 3

MaxInFlight == 2

\* The clock advances in steps of TickMs, MaxTicks times.
TickMs == 30000

MaxTicks == 2

Slots == 1..MaxInFlight

Clients == {"10.0.0.1", "10.0.0.2"}

Body(q, ty, f, st, k, p, tr) ==
  [query |-> q, type |-> ty, format |-> f, style |-> st, api_key |-> k,
   provider |-> p, transparent |-> tr]

\* One request alone: every combination of these member values.
WideBodies ==
  { Body(q, ty, f, Undef, k, p, tr) :
      q \in {Undef, S(""), S("A cat"), N("5")},
      ty \in {Undef, S("image"), S("video")},
      f \in {Undef, S(""), S("icon"), S("gif")},
      k \in {Undef, S("sk-req")},
      p \in {Undef, S(""), S("openai"), S("stability"), S("dalle")},
      tr \in {Undef, Null, True, False, S("yes")} }

\* Valid requests that name a style, for both kinds of provider and two
\* queries.
StyledBodies ==
  { Body(S(q), S("image"), S("icon"), st, S("sk-req"), p, tr) :
      q \in {"A cat", "A provider logo"}, st \in {Null, S(""), S("pixel")},
      p \in {S("openai"), S("replicate")}, tr \in {Undef, True, False} }

\* Several requests together: one that calls the provider and one that fails
\* validation.
CoreBodies ==
  { Body(S("A cat"), S("image"), S("icon"), Undef, S("sk-req"), S("openai"), False),
    Body(Undef, S("image"), Undef, Undef, S("sk-req"), Undef, Undef) }

\* Requests that generate a file name: through the provider, and with a
\* placeholder.
NamedBodies ==
  { Body(S("A cat"), S("image"), S("icon"), Undef, S("sk-req"), S("openai"), False),
    Body(S("A cat"), S("image"), S("icon"), Undef, S("sk-req"), S("replicate"), Undef) }

\* The first eight characters uuidv4() may give.
UuidPrefixes == {"1a2b3c4d", "9f8e7d6c"}

\* Eight characters that differ from request to request.
DistinctPrefix(n) == CharAt(Digits, n + 1) \o "f8e7d6c"

\* data.error?.message of a provider error response.
Details ==
  { Undef, S("Your request was rejected by the safety system"),
    S("Incorrect API key provided"), S("Unknown provider option"),
    S("You exceeded the rate limit") }

ApiOutcome(kind, status, detail, urls) ==
  [kind |-> kind, status |-> status, detail |-> detail, urls |-> urls]

\* What axios.post to the image endpoint can end in.
ApiOutcomes ==
  { ApiOutcome("ok", 200, Undef, u) :
      u \in {<<>>, <<"https://img.example/a.png">>,
             <<"https://img.example/b.png", "https://img.example/a.png">>} }
  \cup { ApiOutcome("http", st, d, <<>>) : st \in {400, 401, 429, 500}, d \in Details }
  \cup { ApiOutcome("network", 0, S("connect ECONNREFUSED 104.18.6.192:443"), <<>>) }

\* The outcomes tried when several requests run together.
CoreApiOutcomes ==
  { ApiOutcome("ok", 200, Undef, <<"https://img.example/a.png">>),
    ApiOutcome("http", 500, Undef, <<>>) }

\* The content served at a URL.
ContentAt(url) == "PNG<" \o url \o ">"

\* What axios.get of the image URL can end in.
DownloadOutcomes ==
  { [ok |-> TRUE, message |-> ""],
    [ok |-> FALSE, message |-> "Request failed with status code 404"] }

\* What the file system can do to saveImageToDisk.
DiskOutcomes == {"ok", "mkdirFails", "writeFails"}

(***************************************************************************)
(* The route and the rate limiter                                          *)
(***************************************************************************)
Route_NoLimiter == <<"validateGenerateRequest", "generateAsset">>

Route_ValidatorFirst ==
  <<"validateGenerateRequest", "apiRateLimiter", "generateAsset">>

\* router.post('/generate', apiRateLimiter, validateGenerateRequest,
\*             assetController.generateAsset)
Route == <<"apiRateLimiter", "validateGenerateRequest", "generateAsset">>

\* The middleware next() hands the request to.
After(name) == Route[(CHOOSE i \in 1..Len(Route) : Route[i] = name) + 1]

MsgTooManyRequests == "Too many requests, please try again later."

RateLimitOptions_OffByOne ==
  [windowMs |-> RateLimitWindowMs, max |-> RateLimitMax + 1,
   message |-> [status |-> S("error"), message |-> S(MsgTooManyRequests),
                details |-> Undef]]

RateLimitOptions_Swapped ==
  [windowMs |-> RateLimitMax, max |-> RateLimitWindowMs,
   message |-> [status |-> S("error"), message |-> S(MsgTooManyRequests),
                details |-> Undef]]

\* The options apiRateLimiter is built with.
RateLimitOptions ==
  [windowMs |-> RateLimitWindowMs, max |-> RateLimitMax,
   message |-> [status |-> S("error"), message |-> S(MsgTooManyRequests),
                details |-> Undef]]

\* The limiter's status code for a rejected request.
TooManyRequests == 429

NoWindow == [count |-> 0, windowStart |-> 0]

\* One request of client c at time t against the fixed-window counters.
LimiterHit(h, c, t, opts) ==
  LET cur == IF h[c].count = 0 \/ t - h[c].windowStart >= opts.windowMs
             THEN [count |-> 0, windowStart |-> t]
             ELSE h[c]
      new == [cur EXCEPT !.count = @ + 1]
  IN [hits |-> [h EXCEPT ![c] = new], admitted |-> ~(new.count > opts.max)]

(***************************************************************************)
(* State                                                                   *)
(***************************************************************************)
VARIABLES
  config,    \* ConfigService.config
  now,       \* the clock, in ms
  hits,      \* the limiter's counter and window start of each client
  log,       \* every request that reached the limiter: client, time, verdict
  arrivals,  \* requests received so far
  running,   \* the request whose callback holds the thread, or 0
  req,       \* the requests in flight
  disk,      \* the storage directory and its files
  issued     \* the file names generated so far, with their inputs

vars == <<config, now, hits, log, arrivals, running, req, disk, issued>>

NoResponse == [code |-> 0, json |-> [status |-> Undef]]

NoOutcome == [kind |-> "none", status |-> 0, detail |-> Undef, urls |-> <<>>]

NoBody == Body(Undef, Undef, Undef, Undef, Undef, Undef, Undef)

Idle ==
  [pc |-> "idle", client |-> "", body |-> NoBody, n |-> 0,
   stages |-> <<>>,          \* the middlewares and service steps entered
   provider |-> Undef,       \* generateAsset's provider and api_key
   api_key |-> Undef,
   transparent |-> Undef,
   filename |-> "",
   prompts |-> <<>>,         \* the prompt and key of each generation call
   fetched |-> <<>>,         \* the URL of each download
   written |-> <<>>,         \* the path and bytes of each file write
   upstream |-> NoOutcome,   \* how the generation call ended
   download |-> "",          \* how the download ended: "ok", "failed"
   saving |-> "",            \* what the file system did to the save
   resp |-> NoResponse]

\* The storage directory: whether it exists, its files (path and bytes), and
\* the paths whose file a later write has replaced.
NoDisk(dirExists) == [dir |-> dirExists, files |-> {}, replaced |-> {}]

MkdirError(dir) == "EACCES: permission denied, mkdir '" \o dir \o "'"

WriteError(path) == "ENOSPC: no space left on device, open '" \o path \o "'"

\* path.dirname of a path under the storage directory
Dirname(path) ==
  LET cut == CHOOSE i \in 1..Len(path) :
               /\ CharAt(path, i) = "/"
               /\ \A j \in (i + 1)..Len(path) : CharAt(path, j) # "/"
  IN SubSeq(path, 1, cut - 1)

\* fs.writeFileSync(path, bytes): replaces what is there.
WriteFile(d, path, bytes) ==
  LET old == {f \in d.files : f.path = path}
  IN [d EXCEPT !.files = (d.files \ old) \cup {[path |-> path, bytes |-> bytes]},
               !.replaced = @ \cup {f.path : f \in old}]

saveImageToDisk_NoCatch(d, path, bytes, outcome) ==
  IF ~d.dir /\ outcome = "mkdirFails"
    THEN [ok |-> FALSE, disk |-> d, error |-> MkdirError(Dirname(path))]
  ELSE IF outcome = "writeFails"
    THEN [ok |-> FALSE, disk |-> [d EXCEPT !.dir = TRUE], error |-> WriteError(path)]
  ELSE [ok |-> TRUE, disk |-> WriteFile([d EXCEPT !.dir = TRUE], path, bytes),
        error |-> ""]

\* saveImageToDisk(filePath, imageData) when the file system
\* behaves as outcome says: the new disk, or the Error thrown.
saveImageToDisk(d, path, bytes, outcome) ==
  IF ~d.dir /\ outcome = "mkdirFails"
    THEN [ok |-> FALSE, disk |-> d,
          error |-> "Failed to save image: " \o MkdirError(Dirname(path))]
  ELSE IF outcome = "writeFails"
    THEN [ok |-> FALSE, disk |-> [d EXCEPT !.dir = TRUE],
          error |-> "Failed to save image: " \o WriteError(path)]
  ELSE [ok |-> TRUE, disk |-> WriteFile([d EXCEPT !.dir = TRUE], path, bytes),
        error |-> ""]

Init ==
  /\ config \in ConfigFiles
  /\ now = 0
  /\ hits = [c \in Clients |-> NoWindow]
  /\ log = <<>>
  /\ arrivals = 0
  /\ running = 0
  /\ req = [r \in Slots |-> Idle]
  /\ disk = NoDisk(FALSE)
  /\ issued = [names |-> {}, twice |-> {}]

\* generateAsset's first two statements: provider = null is the parameter's
\* default, then provider || default provider and api_key || default key.
ResolveCredentials_IgnoreRequest(b, cfg) ==
  [provider |-> getDefaultProvider(cfg),
   api_key |-> Or(b.api_key, getDefaultApiKey(cfg, getDefaultProvider(cfg)))]

ResolveCredentials(b, cfg) ==
  LET provider == Or(Default(b.provider, Null), getDefaultProvider(cfg))
  IN [provider |-> provider,
      api_key |-> Or(b.api_key, getDefaultApiKey(cfg, provider))]

\* The controller's answer to an Error thrown by the service.
Fail(me, message) == [me EXCEPT !.pc = "done", !.resp = ErrorResponse(message)]

\* The tail of generateImage: save the bytes, then answer with the metadata.
SaveAndRespond(me, bytes, d) ==
  LET path == PathJoin(AssetStoragePath, me.filename)
      saved == saveImageToDisk(disk, path, bytes, d)
      tried == [me EXCEPT !.stages = Append(@, "saveImageToDisk"),
                          !.saving = IF saved.ok THEN "ok"
                                     ELSE IF disk.dir THEN "writeFails" ELSE d]
  IN IF saved.ok
     THEN [disk |-> saved.disk,
           req |-> [tried EXCEPT
                      !.pc = "done",
                      !.written = Append(@, [path |-> path, bytes |-> bytes]),
                      !.resp = SuccessResponse(path, me.filename, me.body.style,
                                               me.transparent, me.body.query)]]
     ELSE [disk |-> saved.disk, req |-> Fail(tried, saved.error)]

(***************************************************************************)
(* Actions                                                                 *)
(***************************************************************************)
Enter(r, stage) == [req[r] EXCEPT !.stages = Append(@, stage)]

\* generateFilename returned name for (query, format): remembered, and
\* remembered as returned twice when it was returned for them before.
Issue(query, format, name) ==
  LET e == [query |-> query, format |-> format, name |-> name]
  IN [names |-> issued.names \cup {e},
      twice |-> issued.twice \cup (IF e \in issued.names THEN {e} ELSE {})]

\* The thread is free to take a new request.
ThreadFree == running = 0

\* A request of client c with body b is received and handed to the first
\* middleware of the route.
Arrive(r, c, b) ==
  /\ ThreadFree
  /\ req[r].pc = "idle"
  /\ \A q \in Slots : q < r => req[q].pc # "idle"
  /\ arrivals' = arrivals + 1
  /\ running' = r
  /\ req' = [req EXCEPT ![r] = [Idle EXCEPT !.pc = Route[1], !.client = c,
                                           !.body = b, !.n = arrivals + 1]]
  /\ UNCHANGED <<config, now, hits, log, disk, issued>>

\* apiRateLimiter: count the request; answer 429 or call next().
RateLimiterStep(r) ==
  /\ running = r
  /\ req[r].pc = "apiRateLimiter"
  /\ LET hit == LimiterHit(hits, req[r].client, now, RateLimitOptions)
         me == Enter(r, "apiRateLimiter")
     IN /\ hits' = hit.hits
        /\ log' = Append(log, [client |-> req[r].client, t |-> now,
                               admitted |-> hit.admitted])
        /\ req' = [req EXCEPT ![r] =
                     IF hit.admitted
                     THEN [me EXCEPT !.pc = After("apiRateLimiter")]
                     ELSE [me EXCEPT !.pc = "done",
                                     !.resp = [code |-> TooManyRequests,
                                               json |-> RateLimitOptions.message]]]
  /\ UNCHANGED <<config, now, arrivals, running, disk, issued>>

\* validateGenerateRequest: answer 400 or call next().
ValidatorStep(r) ==
  /\ running = r
  /\ req[r].pc = "validateGenerateRequest"
  /\ LET v == validateGenerateRequest(req[r].body, config)
         me == Enter(r, "validateGenerateRequest")
     IN req' = [req EXCEPT ![r] =
                  IF v.next
                  THEN [me EXCEPT !.pc = After("validateGenerateRequest")]
                  ELSE [me EXCEPT !.pc = "done",
                                  !.resp = [code |-> v.code, json |-> v.json]]]
  /\ UNCHANGED <<config, now, hits, log, arrivals, running, disk, issued>>

\* assetController.generateAsset up to the first await that waits for the
\* network, or to the response when there is none.  prefix is what uuidv4()
\* draws, d what the file system does.
HandlerStep(r, prefix, d) ==
  /\ running = r
  /\ req[r].pc = "generateAsset"
  /\ LET b == req[r].body
         cred == ResolveCredentials(b, config)
         fn == generateFilename(b.query, b.format, UuidV4(prefix, req[r].n))
         me == [Enter(r, "generateAsset") EXCEPT
                  !.provider = cred.provider, !.api_key = cred.api_key,
                  !.transparent = Default(b.transparent, True)]
         named == [me EXCEPT !.filename = fn.name]
     IN IF ~Truthy(cred.api_key)
          THEN /\ req' = [req EXCEPT ![r] = Fail(me, MsgNoApiKey(cred.provider))]
               /\ UNCHANGED <<running, disk, issued>>
        ELSE IF b.type # S("image")
          THEN /\ req' = [req EXCEPT ![r] =
                            Fail(me, "Unsupported asset type: " \o ToStr(b.type))]
               /\ UNCHANGED <<running, disk, issued>>
        ELSE IF ~fn.ok
          THEN /\ req' = [req EXCEPT ![r] = Fail(me, fn.error)]
               /\ UNCHANGED <<running, disk, issued>>
        ELSE IF cred.provider = S("openai")
          THEN /\ req' = [req EXCEPT ![r] =
                            [named EXCEPT
                               !.pc = "awaitApi",
                               !.stages = Append(@, "callOpenAIImageAPI"),
                               !.prompts = Append(@,
                                  [prompt |-> AdjustedPrompt(b.query, me.transparent),
                                   key |-> cred.api_key])]]
               /\ running' = 0
               /\ issued' = Issue(b.query, b.format, fn.name)
               /\ UNCHANGED disk
        ELSE LET out == SaveAndRespond(named, getPlaceholderImageData(me.transparent), d)
             IN /\ req' = [req EXCEPT ![r] = out.req]
                /\ disk' = out.disk
                /\ issued' = Issue(b.query, b.format, fn.name)
                /\ UNCHANGED running
  /\ UNCHANGED <<config, now, hits, log, arrivals>>

ApiReturn_RetryOnFailure(r, o) ==
  /\ running = 0
  /\ req[r].pc = "awaitApi"
  /\ IF o.kind # "ok"
       THEN IF Len(req[r].prompts) < 2
            THEN /\ req' = [req EXCEPT ![r] =
                              [req[r] EXCEPT !.prompts = Append(@, @[1])]]
                 /\ UNCHANGED running
            ELSE /\ req' = [req EXCEPT ![r] = Fail([req[r] EXCEPT !.upstream = o],
                                                   OpenAIErrorMessage(o))]
                 /\ running' = r
     ELSE IF Len(o.urls) > 0
       THEN /\ req' = [req EXCEPT ![r] =
                         [req[r] EXCEPT !.pc = "awaitDownload",
                                        !.upstream = o,
                                        !.stages = Append(@, "downloadImage"),
                                        !.fetched = Append(@, o.urls[1])]]
            /\ UNCHANGED running
     ELSE /\ req' = [req EXCEPT ![r] = Fail([req[r] EXCEPT !.upstream = o],
                                            MsgNoImageData)]
          /\ running' = r
  /\ UNCHANGED <<config, now, hits, log, arrivals, disk, issued>>

\* axios.post returns or throws with outcome o.
ApiReturn(r, o) ==
  /\ running = 0
  /\ req[r].pc = "awaitApi"
  /\ IF o.kind # "ok"
       THEN /\ req' = [req EXCEPT ![r] = Fail([req[r] EXCEPT !.upstream = o],
                                              OpenAIErrorMessage(o))]
            /\ running' = r
     ELSE IF Len(o.urls) > 0
       THEN /\ req' = [req EXCEPT ![r] =
                         [req[r] EXCEPT !.pc = "awaitDownload",
                                        !.upstream = o,
                                        !.stages = Append(@, "downloadImage"),
                                        !.fetched = Append(@, o.urls[1])]]
            /\ UNCHANGED running
     ELSE /\ req' = [req EXCEPT ![r] = Fail([req[r] EXCEPT !.upstream = o],
                                            MsgNoImageData)]
          /\ running' = r
  /\ UNCHANGED <<config, now, hits, log, arrivals, disk, issued>>

\* axios.get returns or throws with outcome dl; then the bytes are saved.
DownloadReturn(r, dl, d) ==
  /\ running = 0
  /\ req[r].pc = "awaitDownload"
  /\ running' = r
  /\ IF ~dl.ok
       THEN /\ req' = [req EXCEPT ![r] =
                         Fail([req[r] EXCEPT !.download = "failed"],
                              "Failed to download image: " \o dl.message)]
            /\ UNCHANGED disk
     ELSE LET url == req[r].fetched[Len(req[r].fetched)]
              out == SaveAndRespond([req[r] EXCEPT !.download = "ok"], ContentAt(url), d)
          IN /\ req' = [req EXCEPT ![r] = out.req]
             /\ disk' = out.disk
  /\ UNCHANGED <<config, now, hits, log, arrivals, issued>>

\* The response has gone out; the request is forgotten.
Retire(r) ==
  /\ running = r
  /\ req[r].pc = "done"
  /\ running' = 0
  /\ req' = [req EXCEPT ![r] = Idle]
  /\ UNCHANGED <<config, now, hits, log, arrivals, disk, issued>>

\* The routes the app answers itself.
HealthResponse == [code |-> 200, json |-> [status |-> S("ok")]]

RootResponse ==
  [code |-> 200,
   json |-> [status |-> Undef, name |-> S("AssetGen API"), version |-> S("1.0.0")]]

\* GET /health or GET / of client c: answered at once by the app's own
\* handler; no middleware of the /api router runs.
GetStep(r, c, path) ==
  /\ ThreadFree
  /\ req[r].pc = "idle"
  /\ \A q \in Slots : q < r => req[q].pc # "idle"
  /\ running' = r
  /\ req' = [req EXCEPT ![r] =
               [Idle EXCEPT !.pc = "done", !.client = c,
                            !.stages = <<"GET " \o path>>,
                            !.resp = IF path = "/health" THEN HealthResponse
                                     ELSE RootResponse]]
  /\ UNCHANGED <<config, now, hits, log, arrivals, disk, issued>>

\* Time passes between callbacks.
Tick ==
  /\ running = 0
  /\ arrivals < MaxRequests
  /\ now < MaxTicks * TickMs
  /\ now' = now + TickMs
  /\ UNCHANGED <<config, hits, log, arrivals, running, req, disk, issued>>

\* One request, with any of the wide bodies and any outcome.
ArriveAlone(b) == arrivals = 0 /\ Arrive(1, "10.0.0.1", b)

\* Up to MaxRequests requests, in flight together.  The clients are
\* interchangeable, so the first request comes from the first.
ArriveAmong(r, c, b) ==
  /\ arrivals < MaxRequests
  /\ arrivals = 0 => c = "10.0.0.1"
  /\ Arrive(r, c, b)

Next ==
  \/ ThreadFree /\ arrivals = 0 /\ \E b \in WideBodies \cup StyledBodies : ArriveAlone(b)
  \/ \E r \in Slots : RateLimiterStep(r)
  \/ \E r \in Slots : ValidatorStep(r)
  \/ \E r \in Slots, prefix \in UuidPrefixes, d \in DiskOutcomes : HandlerStep(r, prefix, d)
  \/ \E r \in Slots, o \in ApiOutcomes : ApiReturn(r, o)
  \/ \E r \in Slots, dl \in DownloadOutcomes, d \in DiskOutcomes : DownloadReturn(r, dl, d)
  \/ \E r \in Slots : Retire(r)

\* A single request: every body, every configuration, every outcome.
Spec == Init /\ [][Next]_vars

InitMulti == Init /\ config = FallbackConfig

NextMulti ==
  \/ ThreadFree /\ \E r \in Slots, c \in Clients, b \in CoreBodies : ArriveAmong(r, c, b)
  \/ \E r \in Slots : RateLimiterStep(r)
  \/ \E r \in Slots : ValidatorStep(r)
  \/ \E r \in Slots : HandlerStep(r, DistinctPrefix(req[r].n), "ok")
  \/ \E r \in Slots, o \in CoreApiOutcomes : ApiReturn(r, o)
  \/ \E r \in Slots : DownloadReturn(r, [ok |-> TRUE, message |-> ""], "ok")
  \/ \E r \in Slots : Retire(r)
  \/ Tick

\* Several requests of two clients, in flight together, over time; the
\* identifiers drawn differ in their first eight characters.
SpecMulti == InitMulti /\ [][NextMulti]_vars

NextNames ==
  \/ ThreadFree /\ \E r \in Slots, c \in Clients, b \in NamedBodies : ArriveAmong(r, c, b)
  \/ \E r \in Slots : RateLimiterStep(r)
  \/ \E r \in Slots : ValidatorStep(r)
  \/ \E r \in Slots, prefix \in UuidPrefixes : HandlerStep(r, prefix, "ok")
  \/ \E r \in Slots, o \in CoreApiOutcomes : ApiReturn(r, o)
  \/ \E r \in Slots, dl \in DownloadOutcomes : DownloadReturn(r, dl, "ok")
  \/ \E r \in Slots : Retire(r)

\* Several requests, each with any of the first eight characters.
SpecNames == InitMulti /\ [][NextNames]_vars

RECURSIVE Repeat(_, _)
Repeat(c, k) == IF k = 0 THEN "" ELSE c \o Repeat(c, k - 1)

\* Queries around the length limit of the slug: a run of k letters between
\* a start and an end that hold capitals, digits and other characters.
FilenameRunLengths == {0, 1, SlugMax - 3, SlugMax - 2, SlugMax - 1, SlugMax, SlugMax + 1}

FilenameQueries ==
  { pre \o Repeat("a", k) \o post :
      pre \in {"", "!", "--", "Ab"}, k \in FilenameRunLengths,
      post \in {"", "?", " b", "  Zed 9!"} }

\* Requests answered with a placeholder, for each query and format.
FilenameBodies ==
  { Body(S(q), S("image"), f, Undef, S("sk-req"), S("replicate"), Undef) :
      q \in FilenameQueries, f \in {Undef, S(""), S("icon"), S("sprite")} }

NextFilename ==
  \/ ThreadFree /\ arrivals = 0 /\ \E b \in FilenameBodies : ArriveAlone(b)
  \/ \E r \in Slots : RateLimiterStep(r)
  \/ \E r \in Slots : ValidatorStep(r)
  \/ \E r \in Slots, prefix \in UuidPrefixes : HandlerStep(r, prefix, "ok")
  \/ \E r \in Slots : Retire(r)

\* One request that names a file, for queries of every shape.
SpecFilename == InitMulti /\ [][NextFilename]_vars

NextQuota ==
  \/ ThreadFree /\ \E r \in Slots, c \in Clients, b \in CoreBodies : ArriveAmong(r, c, b)
  \/ \E r \in Slots, c \in Clients, path \in {"/health", "/"} : GetStep(r, c, path)
  \/ \E r \in Slots : RateLimiterStep(r)
  \/ \E r \in Slots : ValidatorStep(r)
  \/ \E r \in Slots : HandlerStep(r, DistinctPrefix(req[r].n), "ok")
  \/ \E r \in Slots, o \in CoreApiOutcomes : ApiReturn(r, o)
  \/ \E r \in Slots : DownloadReturn(r, [ok |-> TRUE, message |-> ""], "ok")
  \/ \E r \in Slots : Retire(r)

\* Requests to /api/generate and to the app's own routes, in one window.
SpecQuota == InitMulti /\ [][NextQuota]_vars

(***************************************************************************)
(* Claims                                                                  *)
(***************************************************************************)
StagesOf(r) == {req[r].stages[i] : i \in 1..Len(req[r].stages)}

LastStage(r) == req[r].stages[Len(req[r].stages)]

\* The validator has run on request r / has answered it / has passed it on.
Validated(r) == "validateGenerateRequest" \in StagesOf(r)

RejectedByValidator(r) ==
  Validated(r) /\ req[r].pc = "done" /\ LastStage(r) = "validateGenerateRequest"

Forwarded(r) == Validated(r) /\ ~RejectedByValidator(r)

\* The first element of a sequence of rules [violated, message] that is
\* violated, or 0.
FirstViolated(rules) ==
  IF \E i \in 1..Len(rules) : rules[i].violated
  THEN CHOOSE i \in 1..Len(rules) :
         rules[i].violated /\ \A j \in 1..(i - 1) : ~rules[j].violated
  ELSE 0

\* What the validator did with request r is what the rules say.
FollowsRules(r, rules) ==
  LET k == FirstViolated(rules)
  IN IF k = 0 THEN Forwarded(r)
     ELSE /\ RejectedByValidator(r)
          /\ req[r].resp.code = 400
          /\ req[r].resp.json.message = S(rules[k].message)

\* The rules of C1 as stated: a member is present when the body has it.
C1_RulesAsStated(b, cfg) ==
  LET has(x) == x # Undef
      effective == IF has(b.provider) THEN b.provider ELSE getDefaultProvider(cfg)
  IN << [violated |-> ~has(b.query) \/ b.query = S(""), message |-> MsgMissingQuery],
        [violated |-> ~has(b.type), message |-> MsgMissingType],
        [violated |-> b.type # S("image"), message |-> MsgUnsupportedType],
        [violated |-> has(b.format) /\ b.format \notin SupportedFormats,
         message |-> MsgUnsupportedFormat],
        [violated |-> ~has(b.api_key) /\ ~Truthy(getDefaultApiKey(cfg, effective)),
         message |-> MsgMissingApiKey],
        [violated |-> has(b.provider) /\ b.provider \notin SupportedProviders,
         message |-> MsgUnsupportedProvider],
        [violated |-> has(b.transparent) /\ b.transparent.t # "boolean",
         message |-> MsgInvalidTransparent] >>

\* C1 as stated: the validator reports the first violated rule, in the order
\* query, type, type = "image", format, api_key, provider, transparent, with
\* 400 and that rule's message, and forwards exactly the requests that
\* violate none; format and provider count as present whenever the body has
\* them.
C1_AsStated == \A r \in Slots : Validated(r) => FollowsRules(r, C1_RulesAsStated(req[r].body, config))

\* The rules with presence read as the validator reads it: query, type,
\* format, api_key and provider are missing when absent or falsy ("", 0,
\* false, null); transparent is present when it is not undefined.
C1_Rules(b, cfg) ==
  LET has(x) == x \notin {Undef, Null, S(""), N("0"), False}
      effective == IF has(b.provider) THEN b.provider ELSE getDefaultProvider(cfg)
  IN << [violated |-> ~has(b.query), message |-> MsgMissingQuery],
        [violated |-> ~has(b.type), message |-> MsgMissingType],
        [violated |-> b.type # S("image"), message |-> MsgUnsupportedType],
        [violated |-> has(b.format) /\ b.format \notin SupportedFormats,
         message |-> MsgUnsupportedFormat],
        [violated |-> ~has(b.api_key) /\ ~has(getDefaultApiKey(cfg, effective)),
         message |-> MsgMissingApiKey],
        [violated |-> has(b.provider) /\ b.provider \notin SupportedProviders,
         message |-> MsgUnsupportedProvider],
        [violated |-> b.transparent # Undef /\ b.transparent.t # "boolean",
         message |-> MsgInvalidTransparent] >>

\* C1, amended: the validator reports only the first violated rule, in the
\* order query, type, type = "image", format, api_key, provider, transparent,
\* with 400 and that rule's message, and forwards exactly the requests that
\* violate none, where an empty or otherwise falsy query, type, format,
\* api_key or provider counts as missing.
C1_FirstViolatedRuleWins ==
  \A r \in Slots : Validated(r) => FollowsRules(r, C1_Rules(req[r].body, config))

\* C1's case: a body that violates two rules (no key, unknown provider) is
\* answered with the message of the earlier one.
C1_Witness ==
  \E r \in Slots :
    /\ RejectedByValidator(r)
    /\ req[r].body.provider = S("dalle")
    /\ req[r].body.api_key = Undef
    /\ req[r].resp.json.message = S(MsgMissingApiKey)

\* The case of C2: the body has no api_key, the configuration gives none for
\* the effective provider, and the rules on query, type and format pass.
C2_NoKeyAnywhere(b, cfg) ==
  /\ b.api_key = Undef
  /\ ~Truthy(getDefaultApiKey(cfg, Or(b.provider, getDefaultProvider(cfg))))
  /\ Truthy(b.query)
  /\ b.type = S("image")
  /\ (Truthy(b.format) => b.format \in SupportedFormats)

\* C2: a request with no api_key and no configured key for its provider is
\* answered 400 with the missing-api_key message by the validator, and at no
\* point of its handling is a provider call made, a download started or a
\* file written.
C2_NoKeyNoCallNoFile ==
  \A r \in Slots :
    C2_NoKeyAnywhere(req[r].body, config) =>
      /\ req[r].prompts = <<>> /\ req[r].fetched = <<>> /\ req[r].written = <<>>
      /\ disk.files = {}
      /\ Validated(r) =>
           /\ RejectedByValidator(r)
           /\ req[r].resp.code = 400
           /\ req[r].resp.json.message = S(MsgMissingApiKey)

\* C2's case: such a request has been answered.
C2_Witness ==
  \E r \in Slots :
    /\ C2_NoKeyAnywhere(req[r].body, config)
    /\ req[r].pc = "done"
    /\ req[r].resp.code = 400

\* The earlier requests of the client of the i-th logged request.
EarlierOfClient(i) == {j \in 1..(i - 1) : log[j].client = log[i].client}

\* The start of the fixed window the i-th logged request falls in: its own
\* time when it is its client's first request or comes W or more after the
\* start of the window of that client's previous request, else that start.
RECURSIVE WindowStartOf(_)
WindowStartOf(i) ==
  IF EarlierOfClient(i) = {} THEN log[i].t
  ELSE LET j == CHOOSE k \in EarlierOfClient(i) : \A m \in EarlierOfClient(i) : m <= k
       IN IF log[i].t - WindowStartOf(j) >= RateLimitWindowMs
          THEN log[i].t
          ELSE WindowStartOf(j)

\* Which request of its client's window the i-th logged request is.
OrdinalInWindow(i) ==
  1 + Cardinality({j \in EarlierOfClient(i) : WindowStartOf(j) = WindowStartOf(i)})

\* C3: a request is admitted exactly when it is among the first max requests
\* of its client in its window; later ones of that window are rejected, the
\* first of the next window is admitted, and only the client's own requests
\* count.
C3_FixedWindowPerClient ==
  \A i \in 1..Len(log) : log[i].admitted <=> OrdinalInWindow(i) <= RateLimitMax

\* C3's case: a client exhausts its window, has a request rejected, and has
\* its first request of the next window admitted.
C3_Witness ==
  \E i, j \in 1..Len(log) :
    /\ i < j
    /\ log[i].client = log[j].client
    /\ ~log[i].admitted
    /\ log[j].admitted
    /\ OrdinalInWindow(j) = 1

\* The steps a request goes through, in order, when the provider is called
\* and when a placeholder is used.
FullPath ==
  <<"apiRateLimiter", "validateGenerateRequest", "generateAsset",
    "callOpenAIImageAPI", "downloadImage", "saveImageToDisk">>

PlaceholderPath ==
  <<"apiRateLimiter", "validateGenerateRequest", "generateAsset", "saveImageToDisk">>

IsPrefix(s, t) == Len(s) <= Len(t) /\ s = SubSeq(t, 1, Len(s))

TouchedNothing(r) ==
  req[r].prompts = <<>> /\ req[r].fetched = <<>> /\ req[r].written = <<>>

\* C4: every request goes through the limiter, the validator, the provider
\* step and the save in that order; one answered 429 by the limiter has
\* reached nothing else, one rejected by the validator has made no provider
\* call, no download and no write, and a file is written only with the bytes
\* the provider step produced.
C4_PipelineOrder ==
  \A r \in Slots :
    /\ IsPrefix(req[r].stages, FullPath) \/ IsPrefix(req[r].stages, PlaceholderPath)
    /\ req[r].resp.code = TooManyRequests =>
         req[r].stages = <<"apiRateLimiter">> /\ TouchedNothing(r)
    /\ RejectedByValidator(r) => TouchedNothing(r)
    /\ \A i \in 1..Len(req[r].written) :
         IF req[r].provider = S("openai")
         THEN /\ req[r].download = "ok"
              /\ req[r].written[i].bytes = ContentAt(req[r].fetched[1])
         ELSE req[r].written[i].bytes \in {TransparentPng, OpaquePng}

\* C4's case: the limiter has answered a request 429 while another request,
\* admitted earlier, has its file written.
C4_Witness ==
  \E r \in Slots :
    /\ req[r].resp.code = TooManyRequests
    /\ req[r].stages = <<"apiRateLimiter">>
    /\ disk.files # {}

\* Request r has passed validation and its provider is one without an
\* implementation.
ValidatedForPlaceholder(r) ==
  /\ Forwarded(r)
  /\ req[r].pc = "done"
  /\ req[r].provider \in {S("stability"), S("replicate")}

\* What the file system did to the save of request r was not a failure.
DiskHealthy(r) == req[r].saving \notin {"mkdirFails", "writeFails"}

\* C5: every validated request whose provider is stability or replicate and
\* whose save the file system does not fail succeeds without a provider call
\* or a download: status "success", the transparent placeholder written when
\* transparent is true (or left out), the opaque one when it is false, and
\* meta.transparent that value.
C5_AsStated ==
  \A r \in Slots :
    ValidatedForPlaceholder(r) /\ DiskHealthy(r) =>
      LET transparent == Default(req[r].body.transparent, True)
      IN /\ req[r].prompts = <<>>
         /\ req[r].fetched = <<>>
         /\ req[r].resp.code = 200
         /\ req[r].resp.json.status = S("success")
         /\ req[r].resp.json.meta.transparent = transparent
         /\ Len(req[r].written) = 1
         /\ req[r].written[1].bytes =
              (IF transparent = True THEN TransparentPng ELSE OpaquePng)

\* Request r is one whose generation call the provider answered with this
\* HTTP status.
UpstreamStatus(r, status) ==
  /\ req[r].pc = "done"
  /\ req[r].upstream.kind = "http"
  /\ req[r].upstream.status = status

NoFileOf(r) ==
  /\ req[r].written = <<>>
  /\ ~\E f \in disk.files : f.path = PathJoin(AssetStoragePath, req[r].filename)

\* C6: a request of provider openai whose generation call fails with HTTP
\* 401 is answered 401 with the invalid-or-missing-key message, and no file
\* is written for it.
C6_Upstream401 ==
  \A r \in Slots :
    UpstreamStatus(r, 401) =>
      /\ req[r].provider = S("openai")
      /\ req[r].resp.code = 401
      /\ req[r].resp.json.status = S("error")
      /\ req[r].resp.json.message = S("Invalid or missing API key.")
      /\ req[r].fetched = <<>>
      /\ NoFileOf(r)

\* C6's case: the provider has answered a generation call 401 and the
\* request has been answered.
C6_Witness ==
  \E r \in Slots :
    /\ UpstreamStatus(r, 401)
    /\ Len(req[r].prompts) = 1
    /\ req[r].resp.code = 401

\* C7: a request whose generation call the provider answers 429 is answered
\* 429, and one it answers 400 is answered 400, whatever detail text the
\* provider sends.
C7_AsStated ==
  \A r \in Slots :
    /\ UpstreamStatus(r, 429) => req[r].resp.code = 429
    /\ UpstreamStatus(r, 400) => req[r].resp.code = 400

\* C8: every failure response is {status: "error", message, details} with
\* the details member present.
C8_AsStated ==
  \A r \in Slots :
    req[r].pc = "done" /\ req[r].resp.code >= 400 =>
      /\ req[r].resp.json.status = S("error")
      /\ req[r].resp.json.message.t = "string"
      /\ req[r].resp.json.details # Undef

\* C10: no file name is returned twice for the same query and format, and
\* no file written for one request is replaced by a later write.
C10_AsStated == issued.twice = {} /\ disk.replaced = {}

\* The slug as the algorithm is described, position by position: a
\* character of [a-z0-9] stays, a character outside it becomes "_" when it
\* starts a run and nothing otherwise.
RECURSIVE CollapsedUpTo(_, _)
CollapsedUpTo(s, i) ==
  IF i = 0 THEN ""
  ELSE CollapsedUpTo(s, i - 1) \o
         (IF IsSlugChar(CharAt(s, i)) THEN CharAt(s, i)
          ELSE IF i = 1 \/ IsSlugChar(CharAt(s, i - 1)) THEN "_"
          ELSE "")

WithoutFirst(s, c) == IF Len(s) > 0 /\ CharAt(s, 1) = c THEN SubSeq(s, 2, Len(s)) ELSE s

WithoutLast(s, c) ==
  IF Len(s) > 0 /\ CharAt(s, Len(s)) = c THEN SubSeq(s, 1, Len(s) - 1) ELSE s

FirstChars(s, n) == SubSeq(s, 1, IF Len(s) < n THEN Len(s) ELSE n)

ExpectedSlug(query) ==
  LET lower == toLowerCase(query)
      collapsed == CollapsedUpTo(lower, Len(lower))
  IN FirstChars(WithoutLast(WithoutFirst(collapsed, "_"), "_"), SlugMax)

WellFormedSlug(slug) ==
  /\ Len(slug) <= SlugMax
  /\ \A i \in 1..Len(slug) : IsSlugChar(CharAt(slug, i)) \/ CharAt(slug, i) = "_"
  /\ Len(slug) > 0 => CharAt(slug, 1) # "_"
  /\ \A i \in 1..(Len(slug) - 1) : ~(CharAt(slug, i) = "_" /\ CharAt(slug, i + 1) = "_")

IsHex8(p) == Len(p) = 8 /\ \A i \in 1..8 : InStr(CharAt(p, i), "0123456789abcdef")

\* The name is slug_word_hhhhhhhh.png for the slug of the query.
NamedAs(e, word) ==
  /\ WellFormedSlug(ExpectedSlug(e.query.v))
  /\ \E p \in UuidPrefixes :
       /\ IsHex8(p)
       /\ e.name = ExpectedSlug(e.query.v) \o "_" \o word \o "_" \o p \o ".png"

\* C9 as stated: the name is slug_format_hhhhhhhh.png, with "image" for the
\* format only when the request has no format member.
C9_AsStated ==
  \A e \in issued.names :
    NamedAs(e, IF e.format = Undef THEN "image" ELSE e.format.v)

\* C9: the name is slug_format_hhhhhhhh.png, with "image" for the format
\* when the request has no format or an empty one; the slug is the query
\* lower-cased, each run outside [a-z0-9] made one "_", one "_" stripped at
\* each end, cut to 50 characters; it has at most 50 characters of
\* [a-z0-9_], no "_" at its start and no two "_" in a row.
C9_FilenameShape ==
  \A e \in issued.names :
    NamedAs(e, IF e.format \in {Undef, S("")} THEN "image" ELSE e.format.v)

\* C9's case: a name has been generated for a query longer than the limit
\* whose slug is cut right after an underscore, and for an empty format.
C9_Witness ==
  \E e \in issued.names :
    /\ Len(e.query.v) > SlugMax
    /\ Len(ExpectedSlug(e.query.v)) = SlugMax
    /\ CharAt(ExpectedSlug(e.query.v), SlugMax) = "_"
    /\ e.format = S("")
    /\ NamedAs(e, "image")

\* The response of request r is a success response whose members are as
\* the request and the generated name say, with this style.
SuccessShape(r, style) ==
  /\ req[r].resp.json =
       [status |-> S("success"),
        file_path |-> S(PathJoin(AssetStoragePath, req[r].filename)),
        file_name |-> S(req[r].filename),
        meta |-> [format |-> S("png"), style |-> style, dimensions |-> S("256x256"),
                  transparent |-> Default(req[r].body.transparent, True),
                  query |-> req[r].body.query]]
  /\ req[r].filename # ""
  /\ req[r].written[Len(req[r].written)].path = PathJoin(AssetStoragePath, req[r].filename)

\* C11 as stated: every success response has file_path = join(root,
\* file_name), format "png", dimensions "256x256", the request's query, its
\* transparent or true, and its style, "default" standing in only for a style
\* that is left out or null.
C11_AsStated ==
  \A r \in Slots :
    req[r].resp.code = 200 =>
      SuccessShape(r, IF req[r].body.style \in {Undef, Null}
                      THEN S("default") ELSE req[r].body.style)

\* C11: every success response has file_path = join(root, file_name), format
\* "png", dimensions "256x256", the request's query, its transparent or true
\* when left out, and its style, "default" standing in for every style that
\* is falsy (left out, null or empty).
C11_SuccessShape ==
  \A r \in Slots :
    req[r].resp.code = 200 =>
      SuccessShape(r, IF Truthy(req[r].body.style)
                      THEN req[r].body.style ELSE S("default"))

\* C11's case: a request with an empty style and no transparent member has
\* been answered with a success response.
C11_Witness ==
  \E r \in Slots :
    /\ req[r].resp.code = 200
    /\ req[r].body.style = S("")
    /\ req[r].body.transparent = Undef
    /\ req[r].resp.json.meta.style = S("default")
    /\ req[r].resp.json.meta.transparent = True

\* Request r has ended in one of the failures the table gives status 500:
\* a provider error other than 401, 429 and 400, an empty result list, a
\* failed download, a failed mkdir or write.
ProviderError(r) ==
  /\ req[r].pc = "done"
  /\ req[r].upstream.kind = "http"
  /\ req[r].upstream.status \notin {401, 429, 400}

NoImageReturned(r) ==
  req[r].pc = "done" /\ req[r].upstream.kind = "ok" /\ req[r].upstream.urls = <<>>

DownloadFailed(r) == req[r].pc = "done" /\ req[r].download = "failed"

PersistFailed(r) == req[r].pc = "done" /\ ~DiskHealthy(r)

\* C12: a provider error other than 401, 429 and 400, an empty result list,
\* a failed download and a failed mkdir or write are each answered 500,
\* whatever text the error message carries.
C12_AsStated ==
  \A r \in Slots :
    ProviderError(r) \/ NoImageReturned(r) \/ DownloadFailed(r) \/ PersistFailed(r) =>
      req[r].resp.code = 500

\* The generation call of request r failed: an error response or no
\* response at all from the provider.
GenerationFailed(r) == req[r].upstream.kind \in {"http", "network"}

EndedInError(r) ==
  /\ req[r].pc = "done"
  /\ req[r].resp.code >= 400
  /\ req[r].resp.json.status = S("error")
  /\ NoFileOf(r)

\* C13: one request makes at most one generation call and at most one
\* download, the download only of the first result of a generation call that
\* returned one, and a failed generation call, an empty result list and a
\* failed download each end it with an error response and no file.
C13_NothingRetried ==
  \A r \in Slots :
    /\ Len(req[r].prompts) <= 1
    /\ Len(req[r].fetched) <= 1
    /\ req[r].fetched # <<>> =>
         /\ Len(req[r].prompts) = 1
         /\ req[r].upstream.kind = "ok"
         /\ Len(req[r].upstream.urls) >= 1
         /\ req[r].fetched[1] = req[r].upstream.urls[1]
    /\ GenerationFailed(r) => EndedInError(r) /\ req[r].fetched = <<>>
    /\ (req[r].upstream.kind = "ok" /\ req[r].upstream.urls = <<>>) =>
         EndedInError(r) /\ req[r].fetched = <<>>
    /\ req[r].download = "failed" => EndedInError(r)

\* C13's case: a request has been answered after its one download failed.
C13_Witness ==
  \E r \in Slots :
    /\ req[r].pc = "done"
    /\ req[r].download = "failed"
    /\ Len(req[r].prompts) = 1
    /\ Len(req[r].fetched) = 1
    /\ req[r].resp.code = 500

\* Request r has passed validation and the handler has resolved its
\* provider to openai.
ValidatedForOpenAI(r) == Forwarded(r) /\ req[r].provider = S("openai")

\* The provider returned a result to request r, the download succeeded and
\* the file system did not fail the save.
ResultDelivered(r) ==
  /\ req[r].pc = "done"
  /\ req[r].upstream.kind = "ok"
  /\ Len(req[r].upstream.urls) >= 1
  /\ req[r].download = "ok"
  /\ DiskHealthy(r)

\* C14: a validated request of provider openai makes a generation call whose
\* prompt is the query, with " with transparent background" appended exactly
\* when transparent is true (or left out); when the provider returns a
\* result (and neither the download nor the file system fails) it downloads
\* the first URL, writes exactly those bytes to the generated path and
\* answers with status "success".
C14_AsStated ==
  \A r \in Slots :
    ValidatedForOpenAI(r) =>
      LET transparent == Default(req[r].body.transparent, True)
          path == PathJoin(AssetStoragePath, req[r].filename)
      IN /\ Len(req[r].prompts) = 1
         /\ req[r].prompts[1].prompt =
              ToStr(req[r].body.query) \o
                (IF transparent = True THEN " with transparent background" ELSE "")
         /\ ResultDelivered(r) =>
              /\ req[r].fetched = <<req[r].upstream.urls[1]>>
              /\ req[r].written =
                   <<[path |-> path, bytes |-> ContentAt(req[r].upstream.urls[1])]>>
              /\ [path |-> path, bytes |-> ContentAt(req[r].upstream.urls[1])] \in disk.files
              /\ req[r].resp.code = 200
              /\ req[r].resp.json.status = S("success")

\* The handler has resolved the provider and key of request r.
Resolved(r) == "generateAsset" \in StagesOf(r)

\* The configured default provider, "openai" when none is configured.
ConfiguredProvider ==
  IF ~config.isNull /\ Truthy(config.provider) THEN config.provider ELSE S("openai")

\* The configured key as supplied for a provider: only for the provider the
\* configuration names.
ConfiguredKeyFor(provider) ==
  IF ~config.isNull /\ provider = config.provider THEN config.apiKey ELSE Null

\* The provider and key of request r are resolved as described, given
\* whether the request's own provider and key are present; the key exists,
\* it is the key of the generation call, and the service does not fail for a
\* missing key.
ResolvedAs(r, hasProvider, hasKey) ==
  LET provider == IF hasProvider THEN req[r].body.provider ELSE ConfiguredProvider
      key == IF hasKey THEN req[r].body.api_key ELSE ConfiguredKeyFor(provider)
  IN /\ req[r].provider = provider
     /\ req[r].api_key = key
     /\ Truthy(key)
     /\ \A i \in 1..Len(req[r].prompts) : req[r].prompts[i].key = key
     /\ req[r].resp.code >= 400 =>
          req[r].resp.json.details # S(MsgNoApiKey(req[r].provider))

\* C15 as stated: present means given and not null (provider ?? default,
\* apiKey ?? configured key).
C15_AsStated ==
  \A r \in Slots :
    Resolved(r) =>
      ResolvedAs(r, req[r].body.provider \notin {Undef, Null},
                    req[r].body.api_key \notin {Undef, Null})

\* C15: the provider used is the request's when it is truthy, else the
\* configured one ("openai" when none); the key used is the request's when it
\* is truthy, else the configured key, supplied only for the configured
\* provider; a request that passed validation always has a key, so the
\* service's missing-key failure does not occur.
C15_CredentialResolution ==
  \A r \in Slots :
    Resolved(r) =>
      ResolvedAs(r, Truthy(req[r].body.provider), Truthy(req[r].body.api_key))

\* C15's case: a request without provider and key has made its generation
\* call with the configured key.
C15_Witness ==
  \E r \in Slots :
    /\ Resolved(r)
    /\ req[r].body.provider = Undef
    /\ req[r].body.api_key = Undef
    /\ Len(req[r].prompts) = 1
    /\ req[r].prompts[1].key = config.apiKey
    /\ req[r].provider = config.provider

\* The logged requests of the client and window of the i-th logged request.
SameWindow(i) ==
  {j \in 1..Len(log) : log[j].client = log[i].client /\ WindowStartOf(j) = WindowStartOf(i)}

Min(a, b) == IF a < b THEN a ELSE b

\* C16: of the k requests of one client in one window, whatever the
\* interleaving of their handling, exactly min(k, max) are admitted and the
\* rest rejected, and the client's counter is the number of its requests in
\* its current window.
C16_NoLostIncrements ==
  /\ \A i \in 1..Len(log) :
       Cardinality({j \in SameWindow(i) : log[j].admitted})
         = Min(Cardinality(SameWindow(i)), RateLimitMax)
  /\ \A c \in Clients :
       hits[c].count =
         Cardinality({j \in 1..Len(log) :
                        log[j].client = c /\ WindowStartOf(j) = hits[c].windowStart})

\* C16's case: while an admitted request awaits the provider, a later
\* request of the same client in the same window has been rejected.
C16_Witness ==
  \E r \in Slots :
    /\ req[r].pc = "awaitApi"
    /\ \E i, j \in 1..Len(log) :
         /\ i < j
         /\ log[i].client = req[r].client
         /\ j \in SameWindow(i)
         /\ log[i].admitted
         /\ ~log[j].admitted

\* Request r is a GET of one of the app's own routes.
IsGet(r) == req[r].stages # <<>> /\ req[r].stages[1] \in {"GET /health", "GET /"}

\* The requests to /api/generate that the limiter has not yet seen.
AtLimiter == {r \in Slots : req[r].pc = "apiRateLimiter"}

\* C17: every request to /api/generate that reached the limiter has used one
\* unit of its client's quota, whatever became of it: a request is answered
\* 429 exactly when max earlier requests of its client fall in its window,
\* valid or not; a GET of /health or / uses no unit and is answered 200.
C17_QuotaUsedByEveryRequest ==
  /\ Len(log) = arrivals - Cardinality(AtLimiter)
  /\ \A i \in 1..Len(log) :
       ~log[i].admitted <=>
         Cardinality({j \in EarlierOfClient(i) : WindowStartOf(j) = WindowStartOf(i)})
           >= RateLimitMax
  /\ \A r \in Slots :
       IsGet(r) => req[r].resp.code = 200 /\ "apiRateLimiter" \notin StagesOf(r)

\* C17's case: a valid request is answered 429 in a window in which no
\* request got as far as naming a file: the quota went to requests that
\* failed validation.
C17_Witness ==
  \E r \in Slots :
    /\ req[r].resp.code = TooManyRequests
    /\ req[r].body.query = S("A cat")
    /\ issued.names = {}
    /\ hits[req[r].client].count > RateLimitMax

\* C18: every request the validator passes on has a query that is a
\* non-empty string, so generating the file name does not fail, and with a
\* provider without an implementation and a storage directory that can be
\* written the request is answered with status "success", not 500.
C18_AsStated ==
  \A r \in Slots :
    Forwarded(r) =>
      /\ req[r].body.query.t = "string"
      /\ req[r].body.query.v # ""
      /\ req[r].resp.json.status = S("error") =>
           req[r].resp.json.details # S(TypeErrorToLowerCase)
      /\ ValidatedForPlaceholder(r) /\ DiskHealthy(r) => req[r].resp.code # 500

=============================================================================
